---- MODULE Spec2Model ----
(***************************************************************************)
(* A model of audiorw (colugomusic/audiorw): the atomic file writer, the   *)
(* chunked write pipeline (ma_write / wavpack_write) over a file sink and  *)
(* the probing read pipeline (detail::read) and the probers                *)
(* (make_decoder, read_header, stream_open) over a byte input stream.      *)
(*                                                                         *)
(* Line numbers refer to src/src/audiorw.cpp.  Frames are counted, not     *)
(* enumerated: a chunk is the number of frames it carries.  A file is a    *)
(* record [exists, data]; data is the sequence of units written to it (the *)
(* encoder's header, one unit per encoded chunk, the encoder's trailer).   *)
(*                                                                         *)
(* The codec backends (miniaudio, WavPack) are outside the repository.     *)
(* They are modelled by what they do through the callbacks the code hands  *)
(* them and by the values they return to the code:                         *)
(*   - ma_encoder_init writes the container header through on_write and    *)
(*     looks only at the callback's result code;                           *)
(*   - ma_encoder_write_pcm_frames writes the chunk through on_write and   *)
(*     reports the frames whose bytes were written;                        *)
(*   - ma_encoder_uninit seeks back and rewrites the header sizes;         *)
(*   - WavpackPackSamples / WavpackFlushSamples return TRUE (1) or         *)
(*     FALSE (0), FALSE when the block output callback returned 0;         *)
(*   - WavpackUnpackSamples / ma_decoder_read_pcm_frames return the number *)
(*     of frames decoded.                                                  *)
(* std::filesystem::remove is taken to succeed; opening the temporary      *)
(* file, writing to it and renaming it may each fail.                      *)
(***************************************************************************)
EXTENDS Integers, Sequences, FiniteSets, TLC

\* static constexpr auto CHUNK_SIZE = 1 << 14;
CHUNK_SIZE == 16384

\* Bounds of the model.
MaxChunks == 2
MaxCalls == 3
MaxChannels == 2
MaxFrames == 2
MaxLen == 3
MaxSamples == 4

VARIABLES
    dest,           \* the file at path_ (the destination)
    tmp,            \* the file at tmp_path_ (<dest>.tmp)
    w_life,         \* atomic_file_writer: "unborn", "live", "dead"
    file_open,      \* file_.is_open()
    file_fail,      \* file_.fail() (failbit or badbit, sticky)
    commit_flag,    \* commit_flag_
    wh,             \* history of the writer: calls made, renames done
    op,             \* the entry point running: "write", "read", "writer"
    fmt,            \* write: header.format
    hint,           \* read: the format_hint
    content,        \* read: the format the input bytes really are, or "none"
    frame_count,    \* header.frame_count
    src_avail,      \* frames the source (or the decoder) can really deliver
    pc,             \* position in the running entry point
    result,         \* "none", "success", "abort", "fail", "error" (a throw)
    frames_remaining,
    src_pos,        \* frames delivered by the source so far (pos_)
    buf,            \* frames in sample_buffer after the chunk's read
    buf_first,      \* index, in the source, of the first frame in sample_buffer
    enc_live,       \* the encoder object exists (scope_ma_encoder / scope_wavpack_writer)
    enc_pending,    \* frames the WavPack encoder holds that it has not written out yet
    cand,           \* read: index of the candidate format being tried
    item_hdr,       \* read: frame count of the header held by the item, -1 when none
    item_pos,       \* read: item_item_output_stream::pos_
    in_kind,        \* the byte input stream: "memory" (byte_input_stream) or "file"
    in_pos,         \* position of the byte input stream: 0 is its start
    in_fail,        \* file input stream: file_.fail() (sticky)
    dec,            \* the decoder a prober returned: "none", "ma", "wavpack"
    hdr_fmt,        \* header.format of the header a read or a decoder reported
    via_path,       \* read: entered through read(path, hint, should_abort)
    pred,           \* the predicate: "given" by the caller, or the "default" one
    bit_depth,      \* bits per sample of the audio in the input stream
    ext,            \* make_format_hint: the extension of file_path
    try_all,        \* make_format_hint: its try_all argument
    ret,            \* read(path, ...): "none", "item", "nullopt" or "error"
    divisor,        \* the divisor of the last integer-sample decode, -1 when none
    dec_ctx,        \* the parse context the returned decoder refers to:
                    \* "none", "open" or "released"
    item_ch,        \* channel count in the header the item holds, 0 in a new item
    bs,             \* a byte input stream under direct use: its data, position, flags
    rt,             \* a round trip: the item written, the file, the item read back
    h               \* history of the transfer

fsVars     == <<dest, tmp>>
writerVars == <<w_life, file_open, file_fail, commit_flag, wh>>
callVars   == <<via_path, pred, bit_depth, ext, try_all, bs, rt>>
inputVars  == <<op, fmt, hint, content, frame_count, src_avail, in_kind, callVars>>
loopVars   == <<frames_remaining, src_pos, buf, buf_first, enc_live, enc_pending>>
streamVars == <<in_pos, in_fail, dec, hdr_fmt>>
auxVars    == <<ret, divisor, dec_ctx, item_ch>>
readVars   == <<cand, item_hdr, item_pos, streamVars, auxVars>>
vars == <<dest, tmp, w_life, file_open, file_fail, commit_flag, wh, op, fmt, hint,
          content, frame_count, src_avail, pc, result, frames_remaining, src_pos,
          buf, buf_first, enc_live, enc_pending, cand, item_hdr, item_pos, in_kind,
          in_pos, in_fail, dec, hdr_fmt, via_path, pred, bit_depth, ext, try_all,
          ret, divisor, dec_ctx, item_ch, bs, rt, h>>

Min(a, b) == IF a < b THEN a ELSE b

\* A byte input stream nobody uses, and no round trip.
ByteStream0 == [kind |-> "none"]
RoundTrip0 == [stage |-> "none"]

----------------------------------------------------------------------------
\* Files

\* struct header: int bit_depth = 32;  the depth of float samples.
FloatBits == 32

\* A path without an extension.
NoExt == [name |-> "", upper |-> FALSE]

Absent == [exists |-> FALSE, data |-> <<>>]
File(d) == [exists |-> TRUE, data |-> d]
OldContent == File(<<"old">>)

\* make_tmp_file_path: the temporary file is a different path from the
\* destination, so the two are separate variables.

----------------------------------------------------------------------------
\* atomic_file_writer and file_byte_output_stream

\* atomic_file_writer::atomic_file_writer(path): file_{tmp_path_, std::ios::binary}
\* opens (creates or truncates) the temporary file; a failed open leaves the
\* stream closed with failbit set.
atomic_file_writer_ctor(openOk) ==
    /\ w_life' = "live"
    /\ tmp' = IF openOk THEN File(<<>>) ELSE tmp
    /\ file_open' = openOk
    /\ file_fail' = ~openOk
    /\ commit_flag' = FALSE
    /\ dest' = dest
    /\ wh' = [wh EXCEPT !.lastOp = "ctor", !.open = openOk]

\* What file.write does: it writes only on a good, open stream.
WriteLands(ioOk) == file_open /\ ~file_fail /\ ioOk

\* file_byte_output_stream::write_bytes: file.write(...);
\* return file.fail() ? 0 : buffer.size();
file_byte_output_stream_write_bytes(ioOk, unit) ==
    /\ tmp' = IF WriteLands(ioOk) THEN [tmp EXCEPT !.data = Append(@, unit)] ELSE tmp
    /\ file_fail' = ~WriteLands(ioOk)
    /\ UNCHANGED <<dest, w_life, file_open, commit_flag>>
    /\ wh' = [wh EXCEPT !.lastOp = "write",
                        !.byteFail = @ \/ (~commit_flag /\ ~WriteLands(ioOk)),
                        !.writesAfterCommit = @ \/ commit_flag]

\* file_byte_output_stream::seek: file.seekp(offset, mode); return !file.fail();
\* seekp on a closed stream sets failbit.
SeekLands == file_open /\ ~file_fail

file_byte_output_stream_seek ==
    /\ file_fail' = ~SeekLands
    /\ UNCHANGED <<dest, tmp, w_life, file_open, commit_flag>>
    /\ wh' = [wh EXCEPT !.lastOp = "seek",
                        !.writesAfterCommit = @ \/ commit_flag]

\* std::filesystem::rename(tmp_path_, path_) throws when the temporary file is
\* missing or the rename fails.
CommitThrows(renameOk) == ~commit_flag /\ ~(tmp.exists /\ renameOk)

\* A mutant: commit() without the commit_flag_ guard.
commit_unguarded(renameOk) ==
    /\ file_open' = FALSE
    /\ file_fail' = (file_fail \/ ~file_open)
    /\ IF tmp.exists /\ renameOk
       THEN /\ dest' = tmp
            /\ tmp' = Absent
            /\ commit_flag' = TRUE
            /\ wh' = [wh EXCEPT !.lastOp = "commit", !.commits = @ + 1,
                                !.renames = @ + 1,
                                !.repeatCommits = IF commit_flag THEN @ + 1 ELSE @]
       ELSE /\ UNCHANGED <<dest, tmp>>
            /\ commit_flag' = commit_flag
            /\ wh' = [wh EXCEPT !.lastOp = "commit", !.commits = @ + 1,
                                !.repeatCommits = IF commit_flag THEN @ + 1 ELSE @]
    /\ w_life' = w_life

\* atomic_file_writer::commit: if (!commit_flag_) { flush; close; rename;
\* commit_flag_ = true; }.  close() on a stream that is not open sets failbit.
atomic_file_writer_commit(renameOk) ==
    IF commit_flag
    THEN /\ UNCHANGED <<dest, tmp, w_life, file_open, file_fail, commit_flag>>
         /\ wh' = [wh EXCEPT !.lastOp = "commit", !.commits = @ + 1,
                             !.repeatCommits = @ + 1]
    ELSE /\ file_open' = FALSE
         /\ file_fail' = (file_fail \/ ~file_open)
         /\ IF tmp.exists /\ renameOk
            THEN /\ dest' = tmp
                 /\ tmp' = Absent
                 /\ commit_flag' = TRUE
                 /\ wh' = [wh EXCEPT !.lastOp = "commit", !.commits = @ + 1,
                                     !.renames = @ + 1]
            ELSE /\ UNCHANGED <<dest, tmp, commit_flag>>
                 /\ wh' = [wh EXCEPT !.lastOp = "commit", !.commits = @ + 1]
         /\ w_life' = w_life

\* A mutant: the destructor publishes the temporary file instead of removing it.
dtor_commits ==
    /\ w_life' = "dead"
    /\ file_open' = FALSE
    /\ IF ~file_fail /\ ~commit_flag /\ tmp.exists
       THEN dest' = tmp /\ tmp' = Absent
       ELSE UNCHANGED <<dest, tmp>>
    /\ UNCHANGED <<file_fail, commit_flag>>
    /\ wh' = [wh EXCEPT !.lastOp = "dtor"]

\* A mutant: the destructor removes the destination instead of the temporary file.
dtor_removes_destination ==
    /\ w_life' = "dead"
    /\ file_open' = FALSE
    /\ IF ~file_fail /\ ~commit_flag
       THEN dest' = Absent /\ tmp' = tmp
       ELSE UNCHANGED <<dest, tmp>>
    /\ UNCHANGED <<file_fail, commit_flag>>
    /\ wh' = [wh EXCEPT !.lastOp = "dtor"]

\* atomic_file_writer::~atomic_file_writer:
\* if (file_ && !commit_flag_) { file_.close(); std::filesystem::remove(tmp_path_); }
\* file_ converts to !file_.fail().
atomic_file_writer_dtor ==
    /\ w_life' = "dead"
    /\ file_open' = FALSE
    /\ IF ~file_fail /\ ~commit_flag
       THEN tmp' = Absent /\ dest' = dest
       ELSE UNCHANGED <<dest, tmp>>
    /\ UNCHANGED <<file_fail, commit_flag>>
    /\ wh' = [wh EXCEPT !.lastOp = "dtor"]

WriterHistory0 ==
    [lastOp |-> "none", open |-> FALSE, commits |-> 0, renames |-> 0,
     repeatCommits |-> 0,
     byteFail |-> FALSE, writesAfterCommit |-> FALSE, dest0 |-> Absent]

----------------------------------------------------------------------------
\* Inputs

Formats == {"flac", "mp3", "wav", "wavpack"}
MaFormats == {"flac", "mp3", "wav"}
Hints == {"try_flac_first", "try_mp3_first", "try_wav_first", "try_wavpack_first",
          "try_flac_only", "try_mp3_only", "try_wav_only", "try_wavpack_only"}

\* header.frame_count: around every chunk boundary up to MaxChunks chunks.
FrameCounts == {k * CHUNK_SIZE + d : k \in 0..MaxChunks, d \in {0, 1}}

\* What the source can deliver: everything the header promises, one frame
\* less, or nothing.
SrcAvail(fc) == {fc} \cup (IF fc > 0 THEN {fc - 1, 0} ELSE {})

\* enum class format_hint: the format a hint names, and the two kinds of hint.
HintFormat(hnt) ==
    CASE hnt \in {"try_flac_first", "try_flac_only"}       -> "flac"
      [] hnt \in {"try_mp3_first", "try_mp3_only"}         -> "mp3"
      [] hnt \in {"try_wav_first", "try_wav_only"}         -> "wav"
      [] hnt \in {"try_wavpack_first", "try_wavpack_only"} -> "wavpack"

FirstHints == {"try_flac_first", "try_mp3_first", "try_wav_first", "try_wavpack_first"}
OnlyHints == Hints \ FirstHints

\* A mutant: try_wavpack_first falls back to flac before mp3.
formats_flac_before_mp3(hnt) ==
    CASE hnt = "try_flac_first"    -> <<"flac", "wav", "mp3", "wavpack">>
      [] hnt = "try_mp3_first"     -> <<"mp3", "wav", "flac", "wavpack">>
      [] hnt = "try_wav_first"     -> <<"wav", "mp3", "flac", "wavpack">>
      [] hnt = "try_wavpack_first" -> <<"wavpack", "wav", "flac", "mp3">>
      [] hnt = "try_flac_only"     -> <<"flac">>
      [] hnt = "try_mp3_only"      -> <<"mp3">>
      [] hnt = "try_wav_only"      -> <<"wav">>
      [] hnt = "try_wavpack_only"  -> <<"wavpack">>

\* detail::get_formats_to_try
get_formats_to_try(hnt) ==
    CASE hnt = "try_flac_first"    -> <<"flac", "wav", "mp3", "wavpack">>
      [] hnt = "try_mp3_first"     -> <<"mp3", "wav", "flac", "wavpack">>
      [] hnt = "try_wav_first"     -> <<"wav", "mp3", "flac", "wavpack">>
      [] hnt = "try_wavpack_first" -> <<"wavpack", "wav", "mp3", "flac">>
      [] hnt = "try_flac_only"     -> <<"flac">>
      [] hnt = "try_mp3_only"      -> <<"mp3">>
      [] hnt = "try_wav_only"      -> <<"wav">>
      [] hnt = "try_wavpack_only"  -> <<"wavpack">>

TransferHistory0 ==
    [evals |-> 0, reads |-> 0, writes |-> 0, pulled |-> 0, pushed |-> 0,
     sinceEval |-> 0, aborted |-> FALSE, lateIO |-> FALSE, shortSeen |-> FALSE,
     afterShort |-> FALSE, pushedAtCommit |-> -1, tried |-> 0,
     triedAfterAbort |-> FALSE, chunks |-> <<>>, attempts |-> <<>>,
     opened |-> <<>>, dirtyStart |-> FALSE, rewinds |-> 0,
     decCopies |-> 0, ctxReleases |-> 0, hdrWritten |-> FALSE, calls |-> 0,
     handles |-> {}]

\* A mutant: the chunk is the whole remainder.
whole_remainder(remaining) == remaining

\* const auto frames_to_process = std::min(frames_remaining.value, uint64_t(CHUNK_SIZE));
frames_to_process(remaining) == Min(remaining, CHUNK_SIZE)

\* ads_frame_input_stream::read_frames: const auto beg = frames_->begin();
\* the index of the first frame copied into the buffer when the stream stands
\* at pos.
read_frames_beg(pos) == 0

\* The chunk loop run with chunks of `chunk` frames: the value of pos_ when the
\* chunk that carries output frame i is read (pos_ += frames_to_read after
\* every chunk).
chunk_start(i, chunk) == (i \div chunk) * chunk

\* The source frame that is handed to the encoder as output frame i when the
\* loop runs with chunks of `chunk` frames.
delivered_frame(i, chunk) ==
    read_frames_beg(chunk_start(i, chunk)) + (i - chunk_start(i, chunk))

\* ads_frame_input_stream::read_frames: the frames left in the source, at most
\* the frames the buffer holds.
source_read_frames(n) == Min(src_avail - src_pos, n)

----------------------------------------------------------------------------
\* write(item, path, type, should_abort): the write pipeline over a file sink

Throw == "error"

\* auto out = audiorw::file_byte_output_stream{path};   (write(item, path, ...))
W_Construct ==
    /\ op = "write" /\ pc = "w_ctor"
    /\ \E openOk \in BOOLEAN : atomic_file_writer_ctor(openOk)
    /\ pc' = "enc_init"
    /\ UNCHANGED <<inputVars, loopVars, readVars, result, h>>

\* The encoder miniaudio offers: ma_encoder_init fails for every encoding
\* format but WAV.
MaEncoderSupports(f) == f = "wav"

\* write(): switch (header.format); then the head of ma_write / wavpack_write:
\* the encoder object is constructed.  scope_ma_encoder's constructor throws
\* when ma_encoder_init fails; ma_encoder_init writes the header through
\* ma_on_encoder_write, which answers MA_SUCCESS whatever write_bytes returned.
\* scope_wavpack_writer's constructor throws when the configuration or
\* WavpackPackInit fails, and writes nothing.
W_EncoderInit ==
    /\ op = "write" /\ pc = "enc_init"
    /\ \E initOk \in BOOLEAN, ioOk \in BOOLEAN :
         IF fmt = "wavpack"
         THEN /\ enc_live' = initOk
              /\ pc' = IF initOk THEN "check" ELSE "out_dtor"
              /\ result' = IF initOk THEN result ELSE Throw
              /\ UNCHANGED <<fsVars, writerVars>>
         ELSE IF initOk /\ MaEncoderSupports(fmt)
              THEN /\ file_byte_output_stream_write_bytes(ioOk, "hdr")
                   /\ enc_live' = TRUE
                   /\ pc' = "check"
                   /\ result' = result
              ELSE /\ enc_live' = FALSE
                   /\ pc' = "out_dtor"
                   /\ result' = Throw
                   /\ UNCHANGED <<fsVars, writerVars>>
    /\ frames_remaining' = frame_count
    /\ UNCHANGED <<inputVars, src_pos, buf, buf_first, enc_pending, readVars, h>>

\* auto fn_always(auto value) { return [value] { return value; }; }
\* The answer of the predicate fn_always(value) makes, whenever it is asked.
fn_always(value) == value

\* A mutant: the predicate the overloads without one supply answers true.
default_predicate_aborts == fn_always(TRUE)

\* read(in, out, hint) and write(header, in, out, type):
\* return read(in, out, hint, detail::fn_always(false));
\* return write(header, in, out, type, detail::fn_always(false));
default_predicate == fn_always(FALSE)

\* What should_abort() can answer at a checkpoint: anything for a predicate of
\* the caller, the answer of the supplied predicate otherwise.
should_abort == IF pred = "default" THEN {default_predicate} ELSE BOOLEAN

\* A mutant: the loop head ignores the predicate's answer.
check_ignores_predicate(abort) ==
    /\ op = "write" /\ pc = "check"
    /\ IF frames_remaining > 0
       THEN /\ h' = [h EXCEPT !.evals = @ + 1, !.sinceEval = 0,
                              !.aborted = @ \/ abort]
            /\ pc' = "read"
            /\ result' = result
       ELSE /\ pc' = IF fmt = "wavpack" THEN "flush" ELSE "finish"
            /\ UNCHANGED <<result, h>>
    /\ UNCHANGED <<fsVars, writerVars, inputVars, loopVars, readVars>>

\* A mutant: the predicate is asked before frames_remaining is tested.
check_asks_first(abort) ==
    /\ op = "write" /\ pc = "check"
    /\ h' = [h EXCEPT !.evals = @ + 1, !.sinceEval = 0, !.aborted = @ \/ abort]
    /\ IF abort
       THEN pc' = "enc_dtor" /\ result' = "abort"
       ELSE /\ pc' = IF frames_remaining > 0 THEN "read"
                     ELSE IF fmt = "wavpack" THEN "flush" ELSE "finish"
            /\ result' = result
    /\ UNCHANGED <<fsVars, writerVars, inputVars, loopVars, readVars>>

\* while (frames_remaining > 0UL) { if (should_abort()) { return operation_result::abort; }
\* `abort` is what the predicate answers when it is asked.
write_loop_head(abort) ==
    /\ op = "write" /\ pc = "check"
    /\ IF frames_remaining > 0
       THEN /\ h' = [h EXCEPT !.evals = @ + 1, !.sinceEval = 0,
                              !.aborted = @ \/ abort]
            /\ pc' = IF abort THEN "enc_dtor" ELSE "read"
            /\ result' = IF abort THEN "abort" ELSE result
       ELSE /\ pc' = IF fmt = "wavpack" THEN "flush" ELSE "finish"
            /\ UNCHANGED <<result, h>>
    /\ UNCHANGED <<fsVars, writerVars, inputVars, loopVars, readVars>>

W_Check == \E abort \in should_abort : write_loop_head(abort)

\* A mutant: a short read is not noticed.
read_chunk_unchecked ==
    /\ op = "write" /\ pc = "read"
    /\ LET n == frames_to_process(frames_remaining)
           frames_read == source_read_frames(n)
       IN /\ src_pos' = src_pos + frames_read
          /\ buf' = n
          /\ buf_first' = read_frames_beg(src_pos)
          /\ h' = [h EXCEPT !.reads = @ + 1, !.pulled = @ + frames_read,
                            !.lateIO = @ \/ h.aborted,
                            !.afterShort = @ \/ h.shortSeen,
                            !.shortSeen = @ \/ (frames_read # n)]
          /\ pc' = "encode"
          /\ result' = result
    /\ UNCHANGED <<fsVars, writerVars, inputVars, frames_remaining, enc_live,
                   enc_pending, readVars>>

\* A mutant: a short read makes write return operation_result::fail.
read_chunk_returns_fail ==
    /\ op = "write" /\ pc = "read"
    /\ LET n == frames_to_process(frames_remaining)
           frames_read == source_read_frames(n)
       IN /\ src_pos' = src_pos + frames_read
          /\ buf' = n
          /\ buf_first' = read_frames_beg(src_pos)
          /\ h' = [h EXCEPT !.reads = @ + 1, !.pulled = @ + frames_read,
                            !.lateIO = @ \/ h.aborted,
                            !.afterShort = @ \/ h.shortSeen,
                            !.shortSeen = @ \/ (frames_read # n)]
          /\ pc' = IF frames_read # n THEN "enc_dtor" ELSE "encode"
          /\ result' = IF frames_read # n THEN "fail" ELSE result
    /\ UNCHANGED <<fsVars, writerVars, inputVars, frames_remaining, enc_live,
                   enc_pending, readVars>>

\* sample_buffer.resize(samples_to_process);
\* const auto frames_read = in->read_frames(sample_buffer);
\* if (frames_read != frames_to_process) { throw "Error reading frames"; }
write_read_chunk ==
    /\ op = "write" /\ pc = "read"
    /\ LET n == frames_to_process(frames_remaining)
           frames_read == source_read_frames(n)
       IN /\ src_pos' = src_pos + frames_read
          /\ buf' = n
          /\ buf_first' = read_frames_beg(src_pos)
          /\ h' = [h EXCEPT !.reads = @ + 1, !.pulled = @ + frames_read,
                            !.lateIO = @ \/ h.aborted,
                            !.afterShort = @ \/ h.shortSeen,
                            !.shortSeen = @ \/ (frames_read # n)]
          /\ pc' = IF frames_read # n THEN "enc_dtor" ELSE "encode"
          /\ result' = IF frames_read # n THEN Throw ELSE result
    /\ UNCHANGED <<fsVars, writerVars, inputVars, frames_remaining, enc_live,
                   enc_pending, readVars>>

W_ReadChunk == write_read_chunk

\* scope_ma_encoder::write_pcm_frames over ma_on_encoder_write: the frames
\* whose bytes write_bytes took.
ma_frames_written(n, ioOk) == IF WriteLands(ioOk) THEN n ELSE 0

\* WavpackPackSamples over wavpack_write_blockout: TRUE (1), or FALSE (0) when
\* a block was put out and write_bytes returned 0.
pack_samples_result(emit, ioOk) == IF emit /\ ~WriteLands(ioOk) THEN 0 ELSE 1

\* The effect of one encoder call on the sink and on the encoder's buffer.
encoder_takes(n, emit, ioOk) ==
    IF fmt = "wavpack"
    THEN IF emit
         THEN /\ file_byte_output_stream_write_bytes(ioOk, enc_pending + n)
              /\ enc_pending' = 0
         ELSE /\ enc_pending' = enc_pending + n
              /\ UNCHANGED <<fsVars, writerVars>>
    ELSE /\ file_byte_output_stream_write_bytes(ioOk, n)
         /\ enc_pending' = enc_pending

\* Frames the encoder took of the n it was given.
accepted(n, emit, ioOk) ==
    IF fmt = "wavpack"
    THEN IF pack_samples_result(emit, ioOk) = 1 THEN n ELSE 0
    ELSE ma_frames_written(n, ioOk)

\* The value the code compares with frames_to_process.
frames_written(n, emit, ioOk) ==
    IF fmt = "wavpack" THEN pack_samples_result(emit, ioOk)
    ELSE ma_frames_written(n, ioOk)

\* A mutant: the encoder's answer is not compared with the chunk.
encode_chunk_unchecked(emit, ioOk) ==
    /\ op = "write" /\ pc = "encode"
    /\ encoder_takes(buf, emit, ioOk)
    /\ h' = [h EXCEPT !.writes = @ + 1,
                      !.chunks = Append(@, buf_first),
                      !.pushed = @ + accepted(buf, emit, ioOk),
                      !.sinceEval = @ + accepted(buf, emit, ioOk),
                      !.lateIO = @ \/ h.aborted,
                      !.afterShort = @ \/ h.shortSeen,
                      !.shortSeen = @ \/ (accepted(buf, emit, ioOk) # buf)]
    /\ frames_remaining' = frames_remaining - buf
    /\ pc' = "check"
    /\ result' = result
    /\ UNCHANGED <<inputVars, src_pos, buf, buf_first, enc_live, readVars>>

\* A mutant: a chunk the encoder took short is not an error, and the loop goes
\* on with what is left.
encode_chunk_retries(emit, ioOk) ==
    /\ op = "write" /\ pc = "encode"
    /\ encoder_takes(buf, emit, ioOk)
    /\ h' = [h EXCEPT !.writes = @ + 1,
                      !.chunks = Append(@, buf_first),
                      !.pushed = @ + accepted(buf, emit, ioOk),
                      !.sinceEval = @ + accepted(buf, emit, ioOk),
                      !.lateIO = @ \/ h.aborted,
                      !.afterShort = @ \/ h.shortSeen,
                      !.shortSeen = @ \/ (accepted(buf, emit, ioOk) # buf)]
    /\ pc' = "check"
    /\ result' = result
    /\ frames_remaining' = frames_remaining - accepted(buf, emit, ioOk)
    /\ UNCHANGED <<inputVars, src_pos, buf, buf_first, enc_live, readVars>>

\* const auto frames_written = encoder.write_pcm_frames(sample_buffer.data(), frames_to_process);
\*   (wavpack: WavpackPackSamples(context, buffer_as_ints, frames_to_process))
\* if (frames_written != frames_to_process) { throw ...; }
\* frames_remaining -= frames_written;
write_encode_chunk(emit, ioOk) ==
    /\ op = "write" /\ pc = "encode"
    /\ encoder_takes(buf, emit, ioOk)
    /\ h' = [h EXCEPT !.writes = @ + 1,
                      !.chunks = Append(@, buf_first),
                      !.pushed = @ + accepted(buf, emit, ioOk),
                      !.sinceEval = @ + accepted(buf, emit, ioOk),
                      !.lateIO = @ \/ h.aborted,
                      !.afterShort = @ \/ h.shortSeen,
                      !.shortSeen = @ \/ (accepted(buf, emit, ioOk) # buf)]
    /\ IF frames_written(buf, emit, ioOk) # buf
       THEN /\ pc' = "enc_dtor"
            /\ result' = Throw
            /\ frames_remaining' = frames_remaining
       ELSE /\ pc' = "check"
            /\ result' = result
            /\ frames_remaining' = frames_remaining - buf
    /\ UNCHANGED <<inputVars, src_pos, buf, buf_first, enc_live, readVars>>

W_EncodeChunk == \E emit \in BOOLEAN, ioOk \in BOOLEAN : write_encode_chunk(emit, ioOk)

\* wavpack_write: if (!WavpackFlushSamples(writer.context())) { throw "Write error"; }
\* WavpackFlushSamples puts out what the encoder still holds.
W_Flush ==
    /\ op = "write" /\ pc = "flush"
    /\ \E ioOk \in BOOLEAN :
         IF enc_pending > 0
         THEN /\ file_byte_output_stream_write_bytes(ioOk, enc_pending)
              /\ pc' = IF WriteLands(ioOk) THEN "finish" ELSE "enc_dtor"
              /\ result' = IF WriteLands(ioOk) THEN result ELSE Throw
         ELSE /\ UNCHANGED <<fsVars, writerVars, result>>
              /\ pc' = "finish"
    /\ enc_pending' = 0
    /\ UNCHANGED <<inputVars, frames_remaining, src_pos, buf, buf_first, enc_live, readVars, h>>

\* out->commit(); return operation_result::success;
write_finish(renameOk) ==
    /\ op = "write" /\ pc = "finish"
    /\ atomic_file_writer_commit(renameOk)
    /\ h' = [h EXCEPT !.pushedAtCommit = h.pushed]
    /\ result' = IF CommitThrows(renameOk) THEN Throw ELSE "success"
    /\ pc' = "enc_dtor"
    /\ UNCHANGED <<inputVars, loopVars, readVars>>

W_Finish == \E renameOk \in BOOLEAN : write_finish(renameOk)

\* The encoder object goes out of scope.  scope_ma_encoder::~scope_ma_encoder
\* calls ma_encoder_uninit, which seeks back (ma_on_encoder_seek) and rewrites
\* the header sizes (ma_on_encoder_write); scope_wavpack_writer's destructor
\* calls WavpackCloseFile, which writes nothing.
W_EncoderDtor ==
    /\ op = "write" /\ pc = "enc_dtor"
    /\ IF enc_live /\ fmt # "wavpack"
       THEN \E ioOk \in BOOLEAN : file_byte_output_stream_write_bytes(ioOk, "sizes")
       ELSE UNCHANGED <<fsVars, writerVars>>
    /\ enc_live' = FALSE
    /\ pc' = "out_dtor"
    /\ UNCHANGED <<inputVars, frames_remaining, src_pos, buf, buf_first, enc_pending, readVars,
                   result, h>>

\* write(item, path, ...) returns or unwinds: out is destroyed.
W_OutDtor ==
    /\ op = "write" /\ pc = "out_dtor"
    /\ atomic_file_writer_dtor
    /\ pc' = "done"
    /\ UNCHANGED <<inputVars, loopVars, readVars, result, h>>

----------------------------------------------------------------------------
\* read(in, out, hint, should_abort): detail::read over an item sink

\* The hint detail::read is given: the caller's, but read(path, hint,
\* should_abort) calls audiorw::read(&in, &out, format_hint::try_wav_only, ...).
read_hint == IF via_path THEN "try_wav_only" ELSE hint

formats_to_try == get_formats_to_try(read_hint)

\* Where detail::read hands over when it returns or throws: to its caller, or
\* to read(path, hint, should_abort).
read_end == IF via_path THEN "p_return" ELSE "done"

\* byte_input_stream::read_bytes / file_byte_input_stream::read_bytes, as a
\* backend's parse uses them: the position moves forward; a file read that asks
\* for more bytes than remain (hitEof) sets eofbit and failbit, and a failed
\* file stream reads nothing.
input_read(hitEof) ==
    /\ in_pos' = IF in_fail THEN in_pos ELSE IF hitEof THEN "end" ELSE "mid"
    /\ in_fail' = (in_fail \/ (in_kind = "file" /\ hitEof))

\* in->seek(0, std::ios::beg).  byte_input_stream::seek: pos_ = offset.
\* file_byte_input_stream::seek: file_.seekg(offset, mode), which does nothing
\* on a stream whose failbit is set; the stream is never clear()ed.
input_seek_start ==
    /\ in_pos' = IF in_kind = "file" /\ in_fail THEN in_pos ELSE "start"
    /\ in_fail' = in_fail

\* Whether a parse gets at the bytes it needs: a failed file stream delivers
\* nothing; away from the start the backend finds its signature only if its
\* scan happens to (scanOk).
sees_stream(scanOk) == ~in_fail /\ (in_pos = "start" \/ scanOk)

\* The user-data handle the miniaudio decoder is constructed with, which its
\* callbacks ma_on_decoder_read / ma_on_decoder_seek cast to the stream:
\* ma_try_read and ma_try_read_header: scope_ma_decoder{on_read, on_seek, &user_data},
\* the address of the parameter that holds the stream pointer;
\* try_make_ma_decoder: scope_ma_decoder{..., in}, the stream.
ma_user_data(entry) ==
    IF entry \in {"read", "read_header"} THEN "address_of_parameter" ELSE "stream"

\* The history of a candidate attempt on format f that opened or did not.
attempt(f, opens) ==
    [h EXCEPT !.tried = @ + 1,
              !.handles = IF f = "wavpack" THEN @ ELSE @ \cup {ma_user_data(op)},
              !.attempts = Append(@, f),
              !.opened = Append(@, opens),
              !.dirtyStart = @ \/ (Len(h.attempts) > 0 /\ in_pos # "start"),
              !.triedAfterAbort = @ \/ h.aborted]

\* Whether the backend of candidate format f opens the input.  The WavPack
\* reader opens WavPack bytes only.  ma_decoder_init is not told the candidate:
\* it opens whatever miniaudio decodes (flac, mp3 or wav); ma_try_read hands it
\* the address of its own parameter (&user_data) as the stream handle, so the
\* open may also fail on bytes that are fine (handleOk).
backend_opens(f, handleOk) ==
    IF f = "wavpack" THEN content = "wavpack"
    ELSE handleOk /\ content \in MaFormats

\* What read does with a try_read that did not return success, when the
\* candidate is a miniaudio one (ma_try_read catches everything and returns
\* fail) or the WavPack one (wavpack_read is not wrapped: the throw leaves read).
after_throw(f) == IF f = "wavpack" THEN read_end ELSE "r_rewind"

\* for (auto format : formats_to_try) { try_read(in, out, format, should_abort) ...
\* up to the head of the chunk loop: the decoder is opened, the header is
\* read and out->write_header(header) is called.
\* After the loop: throw std::runtime_error{"Invalid audio format"}.
R_Open ==
    /\ op = "read" /\ pc = "r_open"
    /\ IF cand > Len(formats_to_try)
       THEN /\ result' = Throw
            /\ pc' = read_end
            /\ UNCHANGED <<frames_remaining, item_hdr, h, in_pos, in_fail, hdr_fmt>>
       ELSE \E handleOk \in BOOLEAN, scanOk \in BOOLEAN, hitEof \in BOOLEAN :
              LET f == formats_to_try[cand]
                  opens == backend_opens(f, handleOk) /\ sees_stream(scanOk)
              IN
              /\ IF f # "wavpack" /\ ~handleOk
                 THEN UNCHANGED <<in_pos, in_fail>>
                 ELSE input_read(hitEof /\ ~opens)
              /\ IF opens
                 THEN /\ item_hdr' = frame_count
                      /\ hdr_fmt' = f
                      /\ frames_remaining' = frame_count
                      /\ pc' = "check"
                      /\ result' = result
                      /\ h' = [attempt(f, TRUE) EXCEPT !.evals = 0, !.reads = 0,
                                                       !.writes = 0, !.sinceEval = 0]
                 ELSE /\ pc' = after_throw(f)
                      /\ result' = IF f = "wavpack" THEN Throw ELSE result
                      /\ h' = attempt(f, FALSE)
                      /\ UNCHANGED <<frames_remaining, item_hdr, hdr_fmt>>
    /\ UNCHANGED auxVars
    /\ UNCHANGED <<fsVars, writerVars, inputVars, src_pos, buf, buf_first, enc_live,
                   enc_pending, cand, item_pos, dec>>

\* in->seek(0, std::ios::beg); out->seek({0});  and the next candidate.
\* item_item_output_stream::seek sets pos_ = 0 and leaves the item as it is;
\* the next candidate decodes with a decoder of its own, from frame 0.
R_Rewind ==
    /\ op = "read" /\ pc = "r_rewind"
    /\ input_seek_start
    /\ src_pos' = 0
    /\ item_pos' = 0
    /\ cand' = cand + 1
    /\ pc' = "r_open"
    /\ h' = [h EXCEPT !.rewinds = @ + 1]
    /\ UNCHANGED auxVars
    /\ UNCHANGED <<fsVars, writerVars, inputVars, frames_remaining, buf, buf_first,
                   enc_live, enc_pending, item_hdr, dec, hdr_fmt, result>>

\* while (frames_remaining > 0UL) { if (should_abort()) { return operation_result::abort; }
\* in ma_try_read, wavpack_read_float_chunks and wavpack_read_int_chunks; and in
\* read: if (r == operation_result::success) { return r; } else rewind.
read_loop_head(abort) ==
    /\ op = "read" /\ pc = "check"
    /\ IF frames_remaining > 0
       THEN /\ h' = [h EXCEPT !.evals = @ + 1, !.sinceEval = 0,
                              !.aborted = @ \/ abort]
            /\ pc' = IF abort THEN "r_rewind" ELSE "read"
            /\ result' = result
       ELSE /\ pc' = read_end
            /\ result' = "success"
            /\ h' = h
    /\ UNCHANGED <<fsVars, writerVars, inputVars, loopVars, readVars>>

R_Check == \E abort \in should_abort : read_loop_head(abort)

\* header_.bit_depth = WavpackGetBitsPerSample(context_): the depths of
\* integer WavPack audio; a float WavPack stream has FloatBits and MODE_FLOAT.
IntDepths == {8, 16, 24}

\* const auto float_mode = (reader.mode() & MODE_FLOAT) == MODE_FLOAT;
float_mode == bit_depth = FloatBits

\* wavpack_write_int_chunks: const auto int_scale = (1 << (header.bit_depth - 1)) - 1;
int_scale(depth) == 2^(depth - 1) - 1

\* wavpack_read_int_chunks: const auto divisor = (1 << (header.bit_depth - 1)) - 1;
wavpack_read_int_divisor(depth) == 2^(depth - 1) - 1

\* stream_read_int_frames: const auto divisor = (1 < (header.bit_depth -1 )) - 1;
\* a comparison, whose bool result is promoted to int.
stream_read_int_divisor(depth) == (IF 1 < depth - 1 THEN 1 ELSE 0) - 1

\* const auto frames_read = decoder.read_pcm_frames(buffer.data(), frames_to_read);
\*   (wavpack: WavpackUnpackSamples(context, buffer_as_ints, frames_to_read))
\* if (frames_read != frames_to_read) { throw ...; }
\* wavpack_read_int_chunks then divides every sample of the chunk by divisor.
R_Decode ==
    /\ op = "read" /\ pc = "read"
    /\ LET n == frames_to_process(frames_remaining)
           frames_read == source_read_frames(n)
           f == formats_to_try[cand]
       IN /\ src_pos' = src_pos + frames_read
          /\ buf' = n
          /\ buf_first' = src_pos
          /\ input_read(frames_read # n)
          /\ h' = [h EXCEPT !.reads = @ + 1, !.pulled = @ + frames_read,
                            !.lateIO = @ \/ h.aborted,
                            !.shortSeen = @ \/ (frames_read # n)]
          /\ pc' = IF frames_read # n THEN after_throw(f) ELSE "encode"
          /\ result' = IF frames_read # n /\ f = "wavpack" THEN Throw ELSE result
          /\ divisor' = IF frames_read = n /\ f = "wavpack" /\ ~float_mode
                         THEN wavpack_read_int_divisor(bit_depth) ELSE divisor
    /\ UNCHANGED <<ret, dec_ctx, item_ch>>
    /\ UNCHANGED <<fsVars, writerVars, inputVars, frames_remaining, enc_live,
                   enc_pending, cand, item_hdr, item_pos, dec, hdr_fmt>>

\* item_item_output_stream::write_frames: min(space_remaining, frames in the buffer)
item_write_frames(n) == Min(item_hdr - item_pos, n)

\* const auto frames_written = out->write_frames({buffer});
\* if (frames_written != frames_to_read) { throw ...; }
\* frames_remaining -= frames_read;
R_WriteFrames ==
    /\ op = "read" /\ pc = "encode"
    /\ LET written == item_write_frames(buf)
           f == formats_to_try[cand]
       IN /\ item_pos' = item_pos + written
          /\ h' = [h EXCEPT !.writes = @ + 1, !.pushed = @ + written,
                            !.sinceEval = @ + written,
                            !.lateIO = @ \/ h.aborted]
          /\ IF written # buf
             THEN /\ pc' = after_throw(f)
                  /\ result' = IF f = "wavpack" THEN Throw ELSE result
                  /\ frames_remaining' = frames_remaining
             ELSE /\ pc' = "check"
                  /\ result' = result
                  /\ frames_remaining' = frames_remaining - buf
    /\ UNCHANGED auxVars
    /\ UNCHANGED <<fsVars, writerVars, inputVars, src_pos, buf, buf_first, enc_live,
                   enc_pending, cand, item_hdr, streamVars>>

\* read(path, hint, should_abort): after audiorw::read(&in, &out, ...)
\* if (result == operation_result::success) { return std::move(item); }
\* else { return std::nullopt; }
\* An exception thrown by detail::read passes through.
P_Return ==
    /\ op = "read" /\ pc = "p_return"
    /\ ret' = CASE result = "success" -> "item"
                [] result = Throw -> "error"
                [] OTHER -> "nullopt"
    /\ pc' = "done"
    /\ UNCHANGED <<fsVars, writerVars, inputVars, loopVars, cand, item_hdr, item_pos,
                   streamVars, divisor, dec_ctx, item_ch, result, h>>

----------------------------------------------------------------------------
\* The probers: detail::make_decoder, detail::read_header, detail::stream_open

\* The decoder object a candidate's backend makes.
decoder_of(f) == IF f = "wavpack" THEN "wavpack" ELSE "ma"

\* get_format(const ma_decoder&): the format is read off the backend vtable,
\* that is the format miniaudio found in the bytes.
get_format == content

\* struct scope_ma_decoder and struct scope_wavpack_reader declare a destructor
\* and no copy or move constructor, so both have the implicit member-wise copy
\* constructor and no move constructor.
\* try_make_ma_decoder / try_make_wavpack_decoder: return detail::scope_...{...};
\* into std::optional<detail::decoder>: the optional's decoder is a copy of the
\* temporary, and the temporary's destructor releases the context
\* (ma_decoder_uninit / WavpackCloseFile) the copy goes on holding.
\* make_decoder: return std::move(*decoder); copies the decoder once more, and
\* the optional's decoder is destroyed: a second release of the same context.
decoder_handed_over(hist) ==
    [hist EXCEPT !.decCopies = @ + 2, !.ctxReleases = @ + 2]

\* make_decoder: for (auto format : formats_to_try) {
\*   if (auto decoder = try_make_decoder(in, format)) { return std::move(*decoder); }
\* and after the loop: throw std::runtime_error{"Failed to make decoder"}.
\* try_make_wavpack_decoder and try_make_ma_decoder catch everything and hand
\* the stream `in` itself to the backend.
D_TryMakeDecoder ==
    /\ op = "make_decoder" /\ pc = "d_try"
    /\ IF cand > Len(formats_to_try)
       THEN /\ result' = Throw
            /\ pc' = "done"
            /\ UNCHANGED <<in_pos, in_fail, dec, dec_ctx, h>>
       ELSE \E scanOk \in BOOLEAN, hitEof \in BOOLEAN :
              LET f == formats_to_try[cand]
                  opens == backend_opens(f, TRUE) /\ sees_stream(scanOk)
              IN /\ input_read(hitEof /\ ~opens)
                 /\ dec' = IF opens THEN decoder_of(f) ELSE dec
                 /\ dec_ctx' = IF opens THEN "released" ELSE dec_ctx
                 /\ pc' = IF opens THEN "d_made" ELSE "d_rewind"
                 /\ result' = IF opens THEN "success" ELSE result
                 /\ h' = IF opens THEN decoder_handed_over(attempt(f, opens))
                          ELSE attempt(f, opens)
    /\ UNCHANGED <<ret, divisor, item_ch>>
    /\ UNCHANGED <<fsVars, writerVars, inputVars, loopVars, cand, item_hdr, item_pos,
                   hdr_fmt>>

\* A mutant: the loop steps over a candidate after a failure.
rewind_skips_candidate ==
    /\ op = "make_decoder" /\ pc = "d_rewind"
    /\ input_seek_start
    /\ cand' = cand + 2
    /\ pc' = "d_try"
    /\ h' = [h EXCEPT !.rewinds = @ + 1]
    /\ UNCHANGED auxVars
    /\ UNCHANGED <<fsVars, writerVars, inputVars, loopVars, item_hdr, item_pos, dec,
                   hdr_fmt, result>>

\* make_decoder: in->seek(0, std::ios::beg); and the next candidate.
D_Rewind ==
    /\ op = "make_decoder" /\ pc = "d_rewind"
    /\ input_seek_start
    /\ cand' = cand + 1
    /\ pc' = "d_try"
    /\ h' = [h EXCEPT !.rewinds = @ + 1]
    /\ UNCHANGED auxVars
    /\ UNCHANGED <<fsVars, writerVars, inputVars, loopVars, item_hdr, item_pos, dec,
                   hdr_fmt, result>>

\* detail::get_header(const detail::decoder*): scope_ma_decoder::get_header()
\* is get_header(get_format(decoder_)); scope_wavpack_reader's header has
\* format::wavpack.
D_GetHeader ==
    /\ op = "make_decoder" /\ pc = "d_made"
    /\ hdr_fmt' = IF dec = "wavpack" THEN "wavpack" ELSE get_format
    /\ pc' = "d_read"
    /\ UNCHANGED auxVars
    /\ UNCHANGED <<fsVars, writerVars, inputVars, loopVars, cand, item_hdr, item_pos,
                   in_pos, in_fail, dec, result, h>>

\* read_frames(decoder, buffer, frames_to_read) of the stream object that owns
\* the decoder: read_frames(scope_ma_decoder*) is read_pcm_frames;
\* read_frames(scope_wavpack_reader*) is stream_read_float_frames in float
\* mode and stream_read_int_frames otherwise, which divides every sample it
\* unpacked by divisor.
D_ReadFrames ==
    /\ op = "make_decoder" /\ pc = "d_read"
    /\ divisor' = IF dec = "wavpack" /\ ~float_mode
                   THEN stream_read_int_divisor(bit_depth) ELSE divisor
    /\ pc' = "done"
    /\ UNCHANGED <<fsVars, writerVars, inputVars, loopVars, cand, item_hdr, item_pos,
                   streamVars, ret, dec_ctx, item_ch, result, h>>

\* read_header: for (auto format : formats_to_try) {
\*   if (const auto header = try_read_header(in, format)) { return header; } }
\* throw std::runtime_error{"Invalid audio format"};
\* ma_try_read_header catches everything, hands the backend &user_data and
\* puts the candidate into header.format; wavpack_read_header is not wrapped.
\* Nothing is rewound between two candidates.
H_TryReadHeader ==
    /\ op = "read_header" /\ pc = "h_try"
    /\ IF cand > Len(formats_to_try)
       THEN /\ result' = Throw
            /\ pc' = "done"
            /\ UNCHANGED <<in_pos, in_fail, hdr_fmt, cand, h>>
       ELSE \E handleOk \in BOOLEAN, scanOk \in BOOLEAN, hitEof \in BOOLEAN :
              LET f == formats_to_try[cand]
                  opens == backend_opens(f, handleOk) /\ sees_stream(scanOk)
              IN /\ IF f # "wavpack" /\ ~handleOk
                    THEN UNCHANGED <<in_pos, in_fail>>
                    ELSE input_read(hitEof /\ ~opens)
                 /\ hdr_fmt' = IF opens THEN f ELSE hdr_fmt
                 /\ result' = IF opens THEN "success"
                              ELSE IF f = "wavpack" THEN Throw ELSE result
                 /\ pc' = IF opens \/ f = "wavpack" THEN "done" ELSE "h_try"
                 /\ cand' = IF opens \/ f = "wavpack" THEN cand ELSE cand + 1
                 /\ h' = attempt(f, opens)
    /\ UNCHANGED auxVars
    /\ UNCHANGED <<fsVars, writerVars, inputVars, loopVars, item_hdr, item_pos, dec>>

\* stream_open: for (auto format : formats_to_try) {
\*   if (auto stream = try_stream_open(file, format)) { return std::move(stream).value(); } }
\* throw std::runtime_error{"Failed to open stream"};
\* ma_try_stream_open and wavpack_try_stream_open catch everything; the file is
\* a std::ifstream; nothing is rewound between two candidates.
S_TryStreamOpen ==
    /\ op = "stream_open" /\ pc = "s_try"
    /\ IF cand > Len(formats_to_try)
       THEN /\ result' = Throw
            /\ pc' = "done"
            /\ UNCHANGED <<in_pos, in_fail, dec, cand, h>>
       ELSE \E scanOk \in BOOLEAN, hitEof \in BOOLEAN :
              LET f == formats_to_try[cand]
                  opens == backend_opens(f, TRUE) /\ sees_stream(scanOk)
              IN /\ input_read(hitEof /\ ~opens)
                 /\ dec' = IF opens THEN decoder_of(f) ELSE dec
                 /\ result' = IF opens THEN "success" ELSE result
                 /\ pc' = IF opens THEN "done" ELSE "s_try"
                 /\ cand' = IF opens THEN cand ELSE cand + 1
                 /\ h' = attempt(f, opens)
    /\ UNCHANGED auxVars
    /\ UNCHANGED <<fsVars, writerVars, inputVars, loopVars, item_hdr, item_pos,
                   hdr_fmt>>

----------------------------------------------------------------------------
\* make_format_hint(file_path, try_all)

\* An extension is its letters and their case: [name |-> "flac", upper |-> FALSE]
\* is ".flac", [name |-> "flac", upper |-> TRUE] is ".FLAC".
ExtNames == {"flac", "mp3", "wav", "wv", "ogg"}
Exts == {NoExt} \cup [name : ExtNames, upper : BOOLEAN]

\* make_format_info_table: the catalog FORMAT_INFO.
FORMAT_INFO ==
    { [format |-> "flac", ext |-> [name |-> "flac", upper |-> TRUE],
       hint_only |-> "try_flac_only", hint_all |-> "try_flac_first"],
      [format |-> "mp3", ext |-> [name |-> "mp3", upper |-> TRUE],
       hint_only |-> "try_mp3_only", hint_all |-> "try_mp3_first"],
      [format |-> "wav", ext |-> [name |-> "wav", upper |-> TRUE],
       hint_only |-> "try_wav_only", hint_all |-> "try_wav_first"],
      [format |-> "wavpack", ext |-> [name |-> "wv", upper |-> TRUE],
       hint_only |-> "try_wavpack_only", hint_all |-> "try_wavpack_first"] }

\* find_format_info: the entries whose ext equals the extension, letter for
\* letter (info.ext == extension).
find_format_info(extension) == {info \in FORMAT_INFO : info.ext = extension}

\* make_format_hint: const auto ext = file_path.extension();
\* if (const auto info = find_format_info(ext.string())) {
\*     return try_all ? info->hint_all : info->hint_only; }
\* return format_hint::try_wav_only;
make_format_hint(e, all) ==
    IF find_format_info(e) # {}
    THEN LET info == CHOOSE i \in find_format_info(e) : TRUE
         IN IF all THEN info.hint_all ELSE info.hint_only
    ELSE "try_wav_only"

\* A call of make_format_hint; the hint it returns is kept in `hint`.
F_MakeFormatHint ==
    /\ op = "make_format_hint" /\ pc = "f_call"
    /\ hint' = make_format_hint(ext, try_all)
    /\ pc' = "done"
    /\ UNCHANGED <<fsVars, writerVars, op, fmt, content, frame_count, src_avail,
                   in_kind, callVars, loopVars, readVars, result, h>>

----------------------------------------------------------------------------
\* The specification of the pipelines and the probers

Probers == {"make_decoder", "read_header", "stream_open"}
Decoding == {"read"} \cup Probers

Init ==
    /\ op \in {"write", "read", "make_format_hint"} \cup Probers
    /\ dest \in (IF op = "write" THEN {Absent, OldContent} ELSE {Absent})
    /\ tmp = Absent
    /\ w_life = "unborn"
    /\ file_open = FALSE
    /\ file_fail = FALSE
    /\ commit_flag = FALSE
    /\ wh = [WriterHistory0 EXCEPT !.dest0 = dest]
    /\ fmt \in (IF op = "write" THEN Formats ELSE {"wav"})
    /\ hint \in (IF op \in Decoding THEN Hints ELSE {"try_wav_only"})
    /\ content \in (IF op \in Decoding THEN Formats \cup {"none"} ELSE {"none"})
    /\ frame_count \in (IF op \in {"write", "read"} THEN FrameCounts ELSE {0})
    /\ src_avail \in SrcAvail(frame_count)
    /\ pc = CASE op = "write" -> "w_ctor"
              [] op = "read" -> "r_open"
              [] op = "make_decoder" -> "d_try"
              [] op = "read_header" -> "h_try"
              [] op = "stream_open" -> "s_try"
              [] op = "make_format_hint" -> "f_call"
    /\ result = "none"
    /\ frames_remaining = 0
    /\ src_pos = 0
    /\ buf = 0
    /\ buf_first = 0
    /\ enc_live = FALSE
    /\ enc_pending = 0
    /\ cand = 1
    /\ item_hdr = -1
    /\ item_pos = 0
    /\ via_path \in (IF op = "read" THEN BOOLEAN ELSE {FALSE})
    /\ in_kind \in (CASE op \in {"write", "make_format_hint"} -> {"memory"}
                      [] op = "stream_open" \/ via_path -> {"file"}
                      [] OTHER -> {"memory", "file"})
    /\ in_pos = "start"
    /\ in_fail = FALSE
    /\ dec = "none"
    /\ hdr_fmt = "none"
    /\ pred \in (IF op = "write" \/ (op = "read" /\ ~via_path)
                 THEN {"given", "default"} ELSE {"given"})
    /\ bit_depth \in (IF op \in {"read", "make_decoder"} /\ content = "wavpack"
                      THEN IntDepths \cup {FloatBits} ELSE {FloatBits})
    /\ ext \in (IF op = "make_format_hint" THEN Exts ELSE {NoExt})
    /\ try_all \in (IF op = "make_format_hint" THEN BOOLEAN ELSE {FALSE})
    /\ ret = "none"
    /\ divisor = -1
    /\ dec_ctx = "none"
    /\ item_ch = 0
    /\ bs = ByteStream0
    /\ rt = RoundTrip0
    /\ h = TransferHistory0

Next ==
    \/ W_Construct
    \/ W_EncoderInit
    \/ W_Check
    \/ W_ReadChunk
    \/ W_EncodeChunk
    \/ W_Flush
    \/ W_Finish
    \/ W_EncoderDtor
    \/ W_OutDtor
    \/ R_Open
    \/ R_Rewind
    \/ R_Check
    \/ R_Decode
    \/ R_WriteFrames
    \/ D_TryMakeDecoder
    \/ D_Rewind
    \/ D_GetHeader
    \/ D_ReadFrames
    \/ H_TryReadHeader
    \/ S_TryStreamOpen
    \/ F_MakeFormatHint
    \/ P_Return

Spec == Init /\ [][Next]_vars

----------------------------------------------------------------------------
\* The specification of an atomic_file_writer under a caller that uses a
\* file_byte_output_stream in any order: write_bytes, seek, commit, and
\* finally its destruction.

WInit ==
    /\ op = "writer"
    /\ dest \in {Absent, OldContent}
    /\ tmp = Absent
    /\ w_life = "unborn"
    /\ file_open = FALSE
    /\ file_fail = FALSE
    /\ commit_flag = FALSE
    /\ wh = [WriterHistory0 EXCEPT !.dest0 = dest]
    /\ fmt = "wav"
    /\ hint = "try_wav_only"
    /\ content = "none"
    /\ frame_count = 0
    /\ src_avail = 0
    /\ pc = "caller"
    /\ result = "none"
    /\ frames_remaining = 0
    /\ src_pos = 0
    /\ buf = 0
    /\ buf_first = 0
    /\ enc_live = FALSE
    /\ enc_pending = 0
    /\ cand = 1
    /\ item_hdr = -1
    /\ item_pos = 0
    /\ in_kind = "memory"
    /\ in_pos = "start"
    /\ in_fail = FALSE
    /\ dec = "none"
    /\ hdr_fmt = "none"
    /\ via_path = FALSE
    /\ pred = "given"
    /\ bit_depth = FloatBits
    /\ ext = NoExt
    /\ try_all = FALSE
    /\ ret = "none"
    /\ divisor = -1
    /\ dec_ctx = "none"
    /\ item_ch = 0
    /\ bs = ByteStream0
    /\ rt = RoundTrip0
    /\ h = TransferHistory0

callerVars == <<inputVars, loopVars, readVars, pc, result, h>>

WS_Construct ==
    /\ op = "writer" /\ w_life = "unborn"
    /\ \E openOk \in BOOLEAN : atomic_file_writer_ctor(openOk)
    /\ UNCHANGED callerVars

WS_Write ==
    /\ op = "writer" /\ w_life = "live"
    /\ Len(tmp.data) < MaxCalls
    /\ \E ioOk \in BOOLEAN : file_byte_output_stream_write_bytes(ioOk, "bytes")
    /\ UNCHANGED callerVars

WS_Seek ==
    /\ op = "writer" /\ w_life = "live"
    /\ file_byte_output_stream_seek
    /\ UNCHANGED callerVars

WS_Commit ==
    /\ op = "writer" /\ w_life = "live"
    /\ wh.commits < MaxCalls
    /\ \E renameOk \in BOOLEAN : atomic_file_writer_commit(renameOk)
    /\ UNCHANGED callerVars

WS_Destroy ==
    /\ op = "writer" /\ w_life = "live"
    /\ atomic_file_writer_dtor
    /\ UNCHANGED callerVars

WNext ==
    \/ WS_Construct
    \/ WS_Write
    \/ WS_Seek
    \/ WS_Commit
    \/ WS_Destroy

WriterSpec == WInit /\ [][WNext]_vars

----------------------------------------------------------------------------
\* The specification of an item_item_output_stream under a caller that uses it
\* in any order: write_header, write_frames and seek on the item it was given.
\* item_ch is item_->header.channel_count, item_hdr the frame count of
\* item_->frames, item_pos is pos_, h.pushed counts the frames stored in
\* item_->frames since they were made.  The item the stream is constructed on
\* is the caller's: a default item{} (no channels, no frames) or one that
\* already holds audio.

KInit ==
    /\ op = "sink"
    /\ dest = Absent
    /\ tmp = Absent
    /\ w_life = "unborn"
    /\ file_open = FALSE
    /\ file_fail = FALSE
    /\ commit_flag = FALSE
    /\ wh = WriterHistory0
    /\ fmt = "wav"
    /\ hint = "try_wav_only"
    /\ content = "none"
    /\ frame_count = 0
    /\ src_avail = 0
    /\ pc = "caller"
    /\ result = "none"
    /\ frames_remaining = 0
    /\ src_pos = 0
    /\ buf = 0
    /\ buf_first = 0
    /\ enc_live = FALSE
    /\ enc_pending = 0
    /\ cand = 1
    /\ item_ch \in 0..MaxChannels
    /\ item_hdr \in (IF item_ch = 0 THEN {0} ELSE 0..MaxFrames)
    /\ item_pos = 0
    /\ in_kind = "memory"
    /\ in_pos = "start"
    /\ in_fail = FALSE
    /\ dec = "none"
    /\ hdr_fmt = "none"
    /\ via_path = FALSE
    /\ pred = "given"
    /\ bit_depth = FloatBits
    /\ ext = NoExt
    /\ try_all = FALSE
    /\ ret = "none"
    /\ divisor = -1
    /\ dec_ctx = "none"
    /\ bs = ByteStream0
    /\ rt = RoundTrip0
    /\ h = TransferHistory0

sinkVars == <<fsVars, writerVars, inputVars, loopVars, cand, streamVars, ret, divisor,
              dec_ctx, pc>>

\* item_item_output_stream::write_header: item_->header = header;
\* item_->frames = ads::make<float>(header.channel_count, header.frame_count);
\* pos_ is left as it is.
K_WriteHeader ==
    /\ op = "sink" /\ h.calls < MaxCalls
    /\ \E ch \in 0..MaxChannels, fc \in 0..MaxFrames :
         /\ item_ch' = ch
         /\ item_hdr' = fc
    /\ item_pos' = item_pos
    /\ result' = "ok"
    /\ h' = [h EXCEPT !.calls = @ + 1, !.hdrWritten = TRUE, !.pushed = 0]
    /\ UNCHANGED sinkVars

\* const auto space_remaining = item_->frames.get_frame_count().value - pos_;
\* unsigned: when pos_ is past the frame count the difference wraps to a value
\* above every buffer size, and min() yields the buffer's frames.
sink_frames_to_write(n) ==
    IF item_pos <= item_hdr THEN Min(item_hdr - item_pos, n) ELSE n

\* item_item_output_stream::write_frames:
\* if (item_->header.channel_count == 0) { throw "Header not written yet"; }
\* ads::deinterleave(..., item_->frames.begin() + pos_); pos_ += frames_to_write;
\* Past the end of the frames the store is out of bounds: the call returns or
\* the program crashes.
K_WriteFrames ==
    /\ op = "sink" /\ h.calls < MaxCalls
    /\ \E n \in 1..MaxFrames :
         IF item_ch = 0
         THEN /\ result' = Throw
              /\ item_pos' = item_pos
              /\ h' = [h EXCEPT !.calls = @ + 1, !.writes = @ + 1]
         ELSE /\ result' \in (IF item_pos <= item_hdr THEN {"ok"} ELSE {"ok", "crash"})
              /\ item_pos' = item_pos + sink_frames_to_write(n)
              /\ h' = [h EXCEPT !.calls = @ + 1, !.writes = @ + 1,
                                !.pushed = @ + sink_frames_to_write(n)]
    /\ UNCHANGED <<item_ch, item_hdr>>
    /\ UNCHANGED sinkVars

\* item_item_output_stream::seek: pos_ = 0; return true;
K_Seek ==
    /\ op = "sink" /\ h.calls < MaxCalls
    /\ item_pos' = 0
    /\ result' = "ok"
    /\ h' = [h EXCEPT !.calls = @ + 1]
    /\ UNCHANGED <<item_ch, item_hdr>>
    /\ UNCHANGED sinkVars

KNext ==
    \/ K_WriteHeader
    \/ K_WriteFrames
    \/ K_Seek

SinkSpec == KInit /\ [][KNext]_vars

----------------------------------------------------------------------------
\* The specification of a byte_input_stream (memory-backed) and of a
\* file_byte_input_stream under a caller that uses it in any order: read_bytes,
\* seek and push_back_byte.  The data are the bytes at offsets 0..len-1, and a
\* byte is named by its offset.
\*
\* pos_ of byte_input_stream is a size_t.  A size_t value is held as the
\* integer it is congruent to modulo 2^64 that is nearest to 0: -1 stands for
\* SIZE_MAX.  Sums and differences are exact; in an unsigned comparison every
\* negative representative is above every other one.

ULess(a, b) == IF (a < 0) = (b < 0) THEN a < b ELSE b < 0
UMin(a, b) == IF ULess(a, b) THEN a ELSE b

\* byte_input_stream::byte_input_stream(bytes) / file_byte_input_stream(path):
\* position 0, no flag set.
ByteStreamOver(kind, len) ==
    [kind |-> kind, len |-> len, pos |-> 0, fail |-> FALSE, eof |-> FALSE,
     last |-> "none", prev |-> "none", req |-> 0, p0 |-> 0, f0 |-> FALSE,
     ret |-> 0, ok |-> TRUE, got |-> <<>>, calls |-> 0,
     hitEof |-> FALSE, badOp |-> FALSE, oob |-> FALSE]

\* The record of a call: what was called and in which state.
called(b, name) ==
    [b EXCEPT !.last = name, !.prev = b.last, !.p0 = b.pos,
              !.f0 = b.fail \/ b.eof, !.calls = @ + 1]

\* byte_input_stream::read_bytes:
\* remaining_bytes = bytes_.size() - pos_; n = std::min(buffer.size(), remaining_bytes);
\* std::copy(bytes_.data(), bytes_.data() + n, buffer.data()); pos_ += n; return n;
byte_input_stream_read_bytes(b, size) ==
    LET remaining_bytes == b.len - b.pos
        n == UMin(size, remaining_bytes)
    IN [called(b, "read") EXCEPT !.req = size, !.ret = n,
                                 !.got = [i \in 1..n |-> i - 1],
                                 !.pos = b.pos + n,
                                 !.oob = @ \/ (n > b.len)]

\* byte_input_stream::seek: beg: pos_ = offset; cur: pos_ += offset;
\* end: pos_ = bytes_.size() + offset; return true;
byte_input_stream_seek(b, offset, mode) ==
    [called(b, IF offset = 0 /\ mode = "beg" THEN "seek0" ELSE "seek") EXCEPT
        !.pos = CASE mode = "beg" -> offset
                  [] mode = "cur" -> b.pos + offset
                  [] mode = "end" -> b.len + offset,
        !.ok = TRUE]

\* byte_input_stream::push_back_byte: pos_--; return true;
byte_input_stream_push_back_byte(b) ==
    [called(b, "push_back") EXCEPT !.pos = b.pos - 1, !.ok = TRUE]

\* file_byte_input_stream::read_bytes: if (buffer.size() < 1) return 0;
\* file_.read(char_buffer, buffer.size()); return file_.fail() ? 0 : file_.gcount();
\* std::istream::read on a stream that is not good() sets failbit and extracts
\* nothing; otherwise it extracts up to size bytes and, when the data end
\* first, sets eofbit and failbit.
file_byte_input_stream_read_bytes(b, size) ==
    IF size < 1
    THEN [called(b, "read") EXCEPT !.req = size, !.ret = 0, !.got = <<>>]
    ELSE IF b.fail \/ b.eof
    THEN [called(b, "read") EXCEPT !.req = size, !.ret = 0, !.got = <<>>,
                                   !.fail = TRUE]
    ELSE LET avail == IF b.pos < b.len THEN b.len - b.pos ELSE 0
             gcount == Min(size, avail)
             short == gcount < size
         IN [called(b, "read") EXCEPT !.req = size,
                                      !.got = [i \in 1..gcount |-> b.pos + i - 1],
                                      !.pos = b.pos + gcount,
                                      !.eof = short, !.fail = short,
                                      !.hitEof = @ \/ short,
                                      !.ret = IF short THEN 0 ELSE gcount]

\* file_byte_input_stream::seek: file_.seekg(offset, mode); return !file_.fail();
\* std::istream::seekg clears eofbit, does nothing when fail() is set, and sets
\* failbit when the target lies before the start of the file.
file_byte_input_stream_seek(b, offset, mode) ==
    LET name == IF offset = 0 /\ mode = "beg" THEN "seek0" ELSE "seek"
        target == CASE mode = "beg" -> offset
                    [] mode = "cur" -> b.pos + offset
                    [] mode = "end" -> b.len + offset
    IN IF b.fail
       THEN [called(b, name) EXCEPT !.eof = FALSE, !.ok = FALSE]
       ELSE IF target < 0
       THEN [called(b, name) EXCEPT !.eof = FALSE, !.fail = TRUE, !.badOp = TRUE,
                                    !.ok = FALSE]
       ELSE [called(b, name) EXCEPT !.eof = FALSE, !.pos = target, !.ok = TRUE]

\* file_byte_input_stream::push_back_byte: file_.putback(v); return !file_.fail();
\* std::istream::putback clears eofbit, sets failbit when fail() is set and
\* badbit when there is no byte to step back over.
file_byte_input_stream_push_back_byte(b) ==
    IF b.fail
    THEN [called(b, "push_back") EXCEPT !.eof = FALSE, !.ok = FALSE]
    ELSE IF b.pos = 0
    THEN [called(b, "push_back") EXCEPT !.eof = FALSE, !.fail = TRUE, !.badOp = TRUE,
                                        !.ok = FALSE]
    ELSE [called(b, "push_back") EXCEPT !.eof = FALSE, !.pos = b.pos - 1, !.ok = TRUE]

BInit ==
    /\ op = "bytes"
    /\ dest = Absent
    /\ tmp = Absent
    /\ w_life = "unborn"
    /\ file_open = FALSE
    /\ file_fail = FALSE
    /\ commit_flag = FALSE
    /\ wh = WriterHistory0
    /\ fmt = "wav"
    /\ hint = "try_wav_only"
    /\ content = "none"
    /\ frame_count = 0
    /\ src_avail = 0
    /\ pc = "caller"
    /\ result = "none"
    /\ frames_remaining = 0
    /\ src_pos = 0
    /\ buf = 0
    /\ buf_first = 0
    /\ enc_live = FALSE
    /\ enc_pending = 0
    /\ cand = 1
    /\ item_hdr = -1
    /\ item_pos = 0
    /\ in_kind = "memory"
    /\ in_pos = "start"
    /\ in_fail = FALSE
    /\ dec = "none"
    /\ hdr_fmt = "none"
    /\ via_path = FALSE
    /\ pred = "given"
    /\ bit_depth = FloatBits
    /\ ext = NoExt
    /\ try_all = FALSE
    /\ ret = "none"
    /\ divisor = -1
    /\ dec_ctx = "none"
    /\ item_ch = 0
    /\ \E kind \in {"memory", "file"}, len \in 0..MaxLen : bs = ByteStreamOver(kind, len)
    /\ rt = RoundTrip0
    /\ h = TransferHistory0

byteVars == <<fsVars, writerVars, op, fmt, hint, content, frame_count, src_avail,
              in_kind, via_path, pred, bit_depth, ext, try_all, rt, loopVars,
              readVars, pc, result, h>>

B_ReadBytes ==
    /\ op = "bytes" /\ bs.calls < MaxCalls
    /\ \E size \in 0..(MaxLen + 1) :
         bs' = IF bs.kind = "memory" THEN byte_input_stream_read_bytes(bs, size)
               ELSE file_byte_input_stream_read_bytes(bs, size)
    /\ UNCHANGED byteVars

B_Seek ==
    /\ op = "bytes" /\ bs.calls < MaxCalls
    /\ \E offset \in (-1)..(MaxLen + 1), mode \in {"beg", "cur", "end"} :
         bs' = IF bs.kind = "memory" THEN byte_input_stream_seek(bs, offset, mode)
               ELSE file_byte_input_stream_seek(bs, offset, mode)
    /\ UNCHANGED byteVars

B_PushBackByte ==
    /\ op = "bytes" /\ bs.calls < MaxCalls
    /\ bs' = IF bs.kind = "memory" THEN byte_input_stream_push_back_byte(bs)
             ELSE file_byte_input_stream_push_back_byte(bs)
    /\ UNCHANGED byteVars

BNext ==
    \/ B_ReadBytes
    \/ B_Seek
    \/ B_PushBackByte

ByteStreamSpec == BInit /\ [][BNext]_vars

----------------------------------------------------------------------------
\* The round trip: an item is written with write(header, in, out, type) and the
\* bytes are read back with read(in, out, hint).
\*
\* A sample of the item is the float s / SampleDen for an integer s in
\* -SampleDen..SampleDen.  A sample read back is a fraction [num, den], or
\* Other when its bits are those of no sample.

SampleDen == 4
Samples == (-SampleDen)..SampleDen
Other == [num |-> 0, den |-> 0]

\* The storage types and bit depths an item is written with: float samples of
\* FloatBits bits, integer samples of the IntDepths.
Storages ==
    [type : {"float_", "normalized_float_"}, bit_depth : {FloatBits}]
        \cup [type : {"int_"}, bit_depth : IntDepths]

\* The four bytes of the float s / SampleDen in memory (IEEE 754 single,
\* little-endian), which sample_buffer.data() points at.
float_bytes(s) ==
    LET a == IF s < 0 THEN -s ELSE s
        sign == IF s < 0 THEN 128 ELSE 0
    IN CASE a = 0 -> <<0, 0, 0, 0>>
         [] a = 1 -> <<0, 0, 128, 62 + sign>>
         [] a = 2 -> <<0, 0, 0, 63 + sign>>
         [] a = 3 -> <<0, 0, 64, 63 + sign>>
         [] a = 4 -> <<0, 0, 128, 63 + sign>>

\* The float four bytes are the bits of.
float_of(bytes) ==
    IF \E s \in Samples : float_bytes(s) = bytes
    THEN [num |-> CHOOSE s \in Samples : float_bytes(s) = bytes, den |-> SampleDen]
    ELSE Other

RECURSIVE buffer_bytes(_)
\* The bytes of a std::vector<float> that holds the samples.
buffer_bytes(samples) ==
    IF samples = <<>> THEN <<>>
    ELSE float_bytes(Head(samples)) \o buffer_bytes(Tail(samples))

\* to_ma_format(bit_depth, type): u8, s16, s24, s32 or f32; the bytes one
\* sample of that format takes.
ma_sample_bytes(depth) == depth \div 8

\* ma_write: encoder.write_pcm_frames(sample_buffer.data(), frames_to_process);
\* the encoder was configured with to_ma_format(header.bit_depth, type) and
\* takes frames * channels samples of that format from the buffer as they lie.
ma_encode(samples, depth) ==
    SubSeq(buffer_bytes(samples), 1, Len(samples) * ma_sample_bytes(depth))

\* ma_try_read: buffer.resize(samples_to_read) (zeros);
\* decoder.read_pcm_frames(buffer.data(), frames_to_read): the decoder has no
\* configuration and puts out samples in the format of the file, which land at
\* the start of the float buffer; out->write_frames({buffer}) takes the buffer
\* as floats.
ma_decode(data, count) ==
    LET buffer == [i \in 1..(4 * count) |-> IF i <= Len(data) THEN data[i] ELSE 0]
    IN [i \in 1..count |-> float_of(SubSeq(buffer, 4 * i - 3, 4 * i))]

\* static_cast<int32_t>(double): the fraction a / b, cut towards zero.
truncate(a, b) == IF a < 0 THEN -((-a) \div b) ELSE a \div b

\* wavpack_write_int_chunks:
\* buffer_as_ints[i] = static_cast<int32_t>(double(sample_buffer[i]) * int_scale);
wavpack_encode_int(samples, depth) ==
    [i \in 1..Len(samples) |-> truncate(samples[i] * int_scale(depth), SampleDen)]

\* wavpack_read_int_chunks:
\* buffer.data()[i] = static_cast<float>(buffer_as_ints[i]) / divisor;
wavpack_decode_int(data, depth) ==
    [i \in 1..Len(data) |-> [num |-> data[i], den |-> wavpack_read_int_divisor(depth)]]

\* wavpack_write_float_chunks / wavpack_read_float_chunks: the bits of the
\* floats go to WavpackPackSamples and come back from WavpackUnpackSamples.
wavpack_encode_float(samples) == samples
wavpack_decode_float(data) ==
    [i \in 1..Len(data) |-> [num |-> data[i], den |-> SampleDen]]

TInit ==
    /\ op = "roundtrip"
    /\ dest = Absent
    /\ tmp = Absent
    /\ w_life = "unborn"
    /\ file_open = FALSE
    /\ file_fail = FALSE
    /\ commit_flag = FALSE
    /\ wh = WriterHistory0
    /\ fmt = "wav"
    /\ hint = "try_wav_only"
    /\ content = "none"
    /\ frame_count = 0
    /\ src_avail = 0
    /\ pc = "caller"
    /\ result = "none"
    /\ frames_remaining = 0
    /\ src_pos = 0
    /\ buf = 0
    /\ buf_first = 0
    /\ enc_live = FALSE
    /\ enc_pending = 0
    /\ cand = 1
    /\ item_hdr = -1
    /\ item_pos = 0
    /\ in_kind = "memory"
    /\ in_pos = "start"
    /\ in_fail = FALSE
    /\ dec = "none"
    /\ hdr_fmt = "none"
    /\ via_path = FALSE
    /\ pred = "given"
    /\ bit_depth = FloatBits
    /\ ext = NoExt
    /\ try_all = FALSE
    /\ ret = "none"
    /\ divisor = -1
    /\ dec_ctx = "none"
    /\ item_ch = 0
    /\ bs = ByteStream0
    /\ \E f \in {"wav", "wavpack"}, st \in Storages, chs \in 1..MaxChannels,
          fc \in 0..MaxFrames :
         /\ chs * fc <= MaxSamples
         /\ \E smp \in [1..(chs * fc) -> Samples] :
              rt = [stage |-> "item", format |-> f, type |-> st.type,
                    bit_depth |-> st.bit_depth, channel_count |-> chs,
                    frame_count |-> fc, samples |-> smp, data |-> <<>>,
                    back |-> [format |-> "none"]]
    /\ h = TransferHistory0

tripVars == <<fsVars, writerVars, op, fmt, hint, content, frame_count, src_avail,
              in_kind, via_path, pred, bit_depth, ext, try_all, bs, loopVars,
              readVars, pc, result, h>>

\* write(header, in, out, type): wavpack_write for format::wavpack, ma_write
\* otherwise; the header fields go into the file through the encoder
\* configuration.
T_Write ==
    /\ op = "roundtrip" /\ rt.stage = "item"
    /\ rt' = [rt EXCEPT
                !.stage = "written",
                !.data = CASE rt.format = "wav" -> ma_encode(rt.samples, rt.bit_depth)
                           [] rt.type = "int_" ->
                                wavpack_encode_int(rt.samples, rt.bit_depth)
                           [] OTHER -> wavpack_encode_float(rt.samples)]
    /\ UNCHANGED tripVars

\* read(in, out, hint) on the bytes written, with a hint that starts with the
\* format written: wavpack_read, or ma_try_read, whose decoder is handed
\* ma_user_data (it may fail to open).  The header read back is what the
\* decoder reports: the bit depth of the file's sample format, the channel
\* count and the frame count.
T_Read ==
    /\ op = "roundtrip" /\ rt.stage = "written"
    /\ \E handleOk \in (IF rt.format = "wav" THEN BOOLEAN ELSE {TRUE}) :
         rt' = IF ~handleOk
               THEN [rt EXCEPT !.stage = "failed"]
               ELSE [rt EXCEPT
                       !.stage = "read",
                       !.back = [format |-> rt.format,
                                 bit_depth |-> rt.bit_depth,
                                 channel_count |-> rt.channel_count,
                                 frame_count |-> rt.frame_count,
                                 samples |->
                                   CASE rt.format = "wav" ->
                                          ma_decode(rt.data, Len(rt.samples))
                                     [] rt.type = "int_" ->
                                          wavpack_decode_int(rt.data, rt.bit_depth)
                                     [] OTHER -> wavpack_decode_float(rt.data)]]
    /\ UNCHANGED tripVars

TNext ==
    \/ T_Write
    \/ T_Read

RoundTripSpec == TInit /\ [][TNext]_vars

----------------------------------------------------------------------------
\* Properties

\* C1: a file-sink write that ends with abort or with a failure leaves the
\* destination path as it was before the call: the same content, or absent.
C1_NoPartialOutput ==
    (op = "write" /\ pc = "done" /\ result \in {"abort", Throw}) => dest = wh.dest0

\* A write over an existing file cancelled after at least one chunk went to
\* the encoder.
C1_Witness ==
    /\ op = "write" /\ pc = "done" /\ result = "abort"
    /\ h.pushed > 0
    /\ wh.dest0 = OldContent /\ dest = OldContent

\* C2: after a file-sink write has returned or failed no <dest>.tmp file
\* exists, whatever the outcome, a failed write to the temporary file included.
C2_NoTmpLeft ==
    (op = "write" /\ pc = "done") => ~tmp.exists

\* C3: once commit() has succeeded, a further commit() changes neither the
\* destination, nor the temporary path, nor the writer; the temporary file is
\* renamed once.
C3_CommitIdempotent ==
    [][ /\ (commit_flag /\ wh'.commits = wh.commits + 1) =>
              /\ dest' = dest /\ tmp' = tmp
              /\ file_open' = file_open /\ file_fail' = file_fail
              /\ commit_flag' = commit_flag /\ w_life' = w_life
              /\ wh'.renames = wh.renames
        /\ commit_flag' => wh'.renames = 1 ]_vars

\* commit() has been called again on a writer that had committed.
C3_Witness ==
    /\ op = "writer" /\ commit_flag /\ wh.repeatCommits >= 2
    /\ dest.exists /\ Len(dest.data) >= 1

\* C4: the destination changes in a commit() step only, and then to what the
\* temporary file holds; construction, write_bytes, seek and destruction leave
\* it alone.
C4_OnlyCommitPublishes ==
    [][dest' # dest => (wh'.lastOp = "commit" /\ dest' = tmp /\ ~commit_flag)]_vars

\* A writer that was constructed over an existing file, written to, committed
\* and destroyed.
C4_Witness ==
    /\ op = "writer" /\ w_life = "dead" /\ wh.renames = 1
    /\ wh.dest0 = OldContent /\ dest # wh.dest0 /\ Len(dest.data) >= 2

\* C5: write returns success only when all header.frame_count frames were
\* pulled from the source and pushed to the encoder and commit() was called
\* once, after the last frame was pushed.
C5_SuccessIsComplete ==
    (op = "write" /\ result = "success") =>
        /\ h.pulled = frame_count
        /\ h.pushed = frame_count
        /\ wh.commits = 1
        /\ h.pushedAtCommit = frame_count
        /\ frames_remaining = 0

\* A successful write of more than one chunk.
C5_Witness ==
    /\ op = "write" /\ pc = "done" /\ result = "success"
    /\ frame_count > CHUNK_SIZE /\ h.writes >= 2

\* C6: write returns abort exactly when the predicate answered true at a
\* checkpoint; then commit() is never called and no frame is read from the
\* source or handed to the encoder afterwards.
C6_AbortExactly ==
    op = "write" =>
        /\ pc = "done" => (result = "abort" <=> h.aborted)
        /\ h.aborted => (result = "abort" /\ wh.commits = 0 /\ ~h.lateIO)

\* A write cancelled at its second checkpoint, returned.
C6_Witness ==
    /\ op = "write" /\ pc = "done" /\ result = "abort"
    /\ h.evals = 2 /\ h.pushed = CHUNK_SIZE /\ ~dest.exists

\* C7: when the predicate answers true at a checkpoint of the body read, read
\* returns abort: it tries no further candidate and does not end with the
\* "Invalid audio format" failure.
C7_ReadReturnsAbort ==
    (op = "read" /\ h.aborted) =>
        /\ ~h.triedAfterAbort
        /\ pc # "r_rewind"
        /\ pc = "done" => result = "abort"

\* C8: a chunk the source delivers short, or the encoder takes short, ends
\* the write in failure: no success, no commit(), no later chunk.
C8_ShortIsFailure ==
    (op = "write" /\ h.shortSeen) =>
        /\ result = Throw
        /\ wh.commits = 0
        /\ ~h.afterShort
        /\ pc \in {"enc_dtor", "out_dtor", "done"}

\* A write that failed on a short chunk after a full chunk went through.
C8_Witness ==
    /\ op = "write" /\ pc = "done" /\ h.shortSeen /\ h.pushed >= CHUNK_SIZE

\* C9: once a write_bytes of the transfer has returned fewer bytes than it was
\* given, the write does not end in success and the sink is not committed (the
\* temporary file is not renamed to the destination).
C9_ByteFailurePropagates ==
    (op = "write" /\ wh.byteFail) => (result # "success" /\ wh.renames = 0)

\* C10: in every transfer loop the predicate is evaluated once per chunk
\* iteration, before the chunk's read and not between its read and its write,
\* and at most CHUNK_SIZE frames go through between two evaluations.
C10_OncePerChunk ==
    op \in {"write", "read"} =>
        /\ pc = "check" => (h.evals = h.reads /\ h.reads = h.writes)
        /\ pc = "read" => (h.evals = h.reads + 1 /\ h.reads = h.writes)
        /\ pc = "encode" => (h.evals = h.reads /\ h.reads = h.writes + 1)
        /\ h.sinceEval <= CHUNK_SIZE
        /\ pc = "encode" => (buf <= CHUNK_SIZE /\ h.sinceEval = 0)

\* Back at the loop head after the second full chunk of a transfer.
C10_Witness ==
    /\ pc = "check" /\ h.evals = 2 /\ h.sinceEval = CHUNK_SIZE
    /\ frames_remaining > 0

\* C11: in a write of more than one chunk the frames reach the encoder in
\* source order, each once: the k-th chunk handed to the encoder starts at
\* source frame (k - 1) * CHUNK_SIZE, so output frame i is source frame i.
C11_FramesInOrder ==
    op = "write" =>
        \A k \in 1..Len(h.chunks) : h.chunks[k] = (k - 1) * CHUNK_SIZE

\* C12: what a write delivers does not depend on the chunk size: output frame
\* i of the finished write (chunks of CHUNK_SIZE frames) is the source frame
\* that chunks of 1 frame and one chunk larger than frame_count deliver as
\* output frame i.
C12_ChunkSizeInvariant ==
    (op = "write" /\ pc = "done" /\ result = "success") =>
        \A c \in {1, frame_count + 1} :
            \A i \in 0..(frame_count - 1) :
                h.chunks[(i \div CHUNK_SIZE) + 1] + (i % CHUNK_SIZE)
                    = delivered_frame(i, c)

C14_RewoundBeforeNext ==
    op \in {"read", "make_decoder"} => ~h.dirtyStart

\* C15: in read_header and in stream_open the byte stream is rewound to its
\* start after a failed candidate, before the next candidate is tried.
C15_HeaderProbeRewinds ==
    (op \in {"read_header", "stream_open"} /\ Len(h.attempts) >= 2) => ~h.dirtyStart

\* C16: format resolution ends in the error only when every candidate of the
\* probe sequence was tried and failed; the failure of a candidate that is not
\* the last one does not end the operation.
C16_FatalOnlyWhenAllFail ==
    (op \in {"read", "make_decoder"} /\ pc = "done") =>
        /\ result = Throw => Len(h.attempts) = Len(formats_to_try)
        /\ result # Throw => result = "success"

\* C17: in detail::read and read_header the WavPack backend failing to open a
\* stream that is not WavPack does not end the operation with an error while
\* candidates remain.
C17_MismatchRecoverable ==
    (/\ op \in {"read", "read_header"}
     /\ content # "wavpack"
     /\ Len(h.attempts) > 0
     /\ Len(h.attempts) < Len(formats_to_try)
     /\ h.attempts[Len(h.attempts)] = "wavpack") => result # Throw

\* C18: for a stream that is one of the four formats, the format in the
\* header that read, or make_decoder and get_header, report is that format,
\* wherever it stands in the probe sequence.
C18_ProbeDeterminism ==
    (/\ op \in {"read", "make_decoder"}
     /\ pc = "done" /\ result = "success"
     /\ content \in Formats) => hdr_fmt = content

\* C19: under a try_X_only hint a stream of another supported format is
\* rejected: no decoder is made of it.
C19_OnlyHintRejects ==
    (/\ op \in {"make_decoder", "stream_open"}
     /\ hint \in OnlyHints
     /\ content \in Formats /\ content # HintFormat(hint)) =>
        (dec = "none" /\ result # "success")

uppercase(e) == IF e = NoExt THEN e ELSE [e EXCEPT !.upper = TRUE]

\* C21: make_format_hint(path, try_all) is the hint of the catalog entry for
\* the path's extension in capital letters (the try-first hint when try_all,
\* else the only hint), try_wav_only when there is none; so ".flac" and
\* ".FLAC" give the same hint.
C21_FormatHintByExtension ==
    (op = "make_format_hint" /\ pc = "done") =>
        /\ \A info \in FORMAT_INFO :
              info.ext = uppercase(ext) =>
                  hint = IF try_all THEN info.hint_all ELSE info.hint_only
        /\ (\A info \in FORMAT_INFO : info.ext # uppercase(ext)) => hint = "try_wav_only"

\* C22: when read has ended without success, the output item holds no header
\* (and so no frames) that a failed candidate wrote.
C22_NoLeftoverFromFailedCandidate ==
    (op = "read" /\ pc = "done" /\ result # "success") => item_hdr = -1

\* C23: read(path, hint, should_abort) tries the candidates of
\* get_formats_to_try(hint) for the hint the caller passed.
C23_PathReadUsesHint ==
    (op = "read" /\ via_path) =>
        /\ Len(h.attempts) <= Len(get_formats_to_try(hint))
        /\ \A k \in 1..Len(h.attempts) : h.attempts[k] = get_formats_to_try(hint)[k]

\* C24: read(path, hint, should_abort) ends with an item exactly when the read
\* succeeded and with an empty optional otherwise; it raises no error when the
\* read was cancelled or the file was not recognized.
C24_PathReadOptional ==
    (op = "read" /\ via_path /\ pc = "done") =>
        /\ ret = "item" <=> result = "success"
        /\ ret # "item" => ret = "nullopt"

\* C25: a write that returns hands back abort or success, never fail; every
\* other ending is an exception.
C25_WriteNeverReturnsFail ==
    op = "write" =>
        /\ result \in {"none", "abort", "success", Throw}
        /\ (pc = "done" /\ result # Throw /\ result # "abort") => result = "success"

\* A write that ended on a short read of its second chunk.
C25_Witness ==
    /\ op = "write" /\ pc = "done" /\ result = Throw
    /\ h.shortSeen /\ h.reads = 2 /\ h.writes = 1

\* C26: in a write transfer the sink gets no write_bytes and no seek after its
\* commit() took effect, the encoder's release included.
C26_NoSinkCallAfterCommit ==
    op = "write" => ~wh.writesAfterCommit

C27_ContextReleasedOnce ==
    (op = "make_decoder" /\ dec # "none") =>
        /\ h.decCopies = 0
        /\ h.ctxReleases = 0
        /\ dec_ctx = "open"

\* C30: both decode paths of integer WavPack audio divide by
\* (1 << (bit_depth - 1)) - 1, the encoder's int_scale, which is not zero.
C30_IntDivisorIsScale ==
    (divisor # -1 /\ bit_depth \in IntDepths) =>
        /\ divisor = int_scale(bit_depth)
        /\ divisor # 0

\* C28: a write_frames on a stream whose write_header was not called yet
\* throws and leaves the item as it was; a write_frames after write_header
\* does not throw "Header not written yet".
C28_FramesNeedHeader ==
    [][(op = "sink" /\ h'.writes = h.writes + 1)
          => IF ~h.hdrWritten
             THEN /\ result' = Throw
                  /\ item_ch' = item_ch /\ item_hdr' = item_hdr
                  /\ h'.pushed = h.pushed
             ELSE result' # Throw]_vars

\* C31: a read_bytes made on a stream in a good state, at a position inside
\* the data, returns the number of bytes it placed in the buffer, which is the
\* smaller of the request and the bytes that remain.
C31_ReadBytesReturnsCount ==
    (op = "bytes" /\ bs.last = "read" /\ ~bs.f0 /\ bs.p0 \in 0..bs.len) =>
        /\ bs.ret = Len(bs.got)
        /\ bs.ret = Min(bs.req, bs.len - bs.p0)

\* C33: a read_bytes of the memory-backed stream made at position p inside the
\* data that returns n delivers the bytes at p..p+n-1 and leaves the position
\* at p+n.
C33_ConsecutiveSegments ==
    (op = "bytes" /\ bs.kind = "memory" /\ bs.last = "read" /\ bs.p0 \in 0..bs.len) =>
        /\ bs.got = [i \in 1..bs.ret |-> bs.p0 + i - 1]
        /\ bs.pos = bs.p0 + bs.ret

\* C34: the position of the memory-backed stream stays within 0..length, and no
\* read_bytes reads outside the data.
C34_PositionInRange ==
    (op = "bytes" /\ bs.kind = "memory") => (bs.pos \in 0..bs.len /\ ~bs.oob)

\* C35: on the file-backed stream, once a read_bytes ran into the end of the
\* data, seek(0, beg) succeeds and puts the position at 0, and a read_bytes
\* made next returns the bytes at the start of the file.
C35_RewindAfterEof ==
    (op = "bytes" /\ bs.kind = "file" /\ bs.hitEof /\ ~bs.badOp) =>
        /\ bs.last = "seek0" => (bs.ok /\ bs.pos = 0 /\ ~bs.fail)
        /\ (bs.last = "read" /\ bs.prev = "seek0") =>
               (bs.ret = Min(bs.req, bs.len) /\ bs.got = [i \in 1..bs.ret |-> i - 1])

\* The iterations a transfer of fc frames takes: ceil(fc / CHUNK_SIZE).
Iterations(fc) == (fc + CHUNK_SIZE - 1) \div CHUNK_SIZE

C37_EmptyWriteSkipsPredicate ==
    (op = "write" /\ frame_count = 0) =>
        /\ h.evals = 0 /\ h.reads = 0 /\ ~h.aborted
        /\ result # "abort"
        /\ (pc = "done" /\ result # Throw) => (result = "success" /\ wh.commits = 1)

\* A write of 0 frames with a predicate of the caller, returned with the
\* destination published.
C37_Witness ==
    /\ op = "write" /\ frame_count = 0 /\ pred = "given" /\ pc = "done"
    /\ result = "success" /\ wh.renames = 1 /\ dest.exists

\* C38: in read and read_header the handle every miniaudio decoder is given,
\* which its read and seek callbacks use as the stream, is the caller's stream.
C38_CallbacksUseCallerStream ==
    op \in {"read", "read_header"} => h.handles \subseteq {"stream"}

\* Whether the sample read back is the sample s / SampleDen written: the same
\* value for float storage, within 1 / full_scale for integer storage.
same_sample(s, back, type, depth) ==
    /\ back # Other
    /\ IF type = "int_"
       THEN LET d == back.num * SampleDen - s * back.den
            IN /\ back.den = int_scale(depth)
               /\ d <= SampleDen /\ -d <= SampleDen
       ELSE back.num * SampleDen = s * back.den

\* C32: the item read back from what write produced has the header fields of
\* the item written and, sample by sample, the same samples.
C32_RoundTrip ==
    (op = "roundtrip" /\ rt.stage = "read") =>
        /\ rt.back.format = rt.format
        /\ rt.back.bit_depth = rt.bit_depth
        /\ rt.back.channel_count = rt.channel_count
        /\ rt.back.frame_count = rt.frame_count
        /\ Len(rt.back.samples) = Len(rt.samples)
        /\ \A i \in 1..Len(rt.samples) :
              same_sample(rt.samples[i], rt.back.samples[i], rt.type, rt.bit_depth)

====
